---------------------------- MODULE Spec2Model ----------------------------
(***************************************************************************)
(* Model of forminator.py: the batch request engine (APIRequestManager)    *)
(* and the part of MainWindow that starts a batch and receives its result. *)
(*                                                                         *)
(* Strings that the code inspects are sequences of one-character strings   *)
(* (file names) or sequences of lexical tokens (message content), so that  *)
(* endswith, suffix, lower, split, strip and lstrip are computed, not      *)
(* assumed.                                                                *)
(***************************************************************************)
EXTENDS Integers, Sequences, FiniteSets, TLC

\* ---------------------------------------------------------------- bounds
\* Largest usage value (prompt_tokens / completion_tokens) one response reports.
MaxUsage == 1
\* Largest number of manager threads alive at once (the thread of the current
\* manager and those of the managers the window has replaced).
MaxThreads == 2
\* Largest number of entries in the forms directory.
MaxEntries == 2
\* Number of workers and of files in the concurrent-dispatch specification.
MaxWorkers == 2
MaxParFiles == 2

\* ------------------------------------------------------- python strings
Last(s) == s[Len(s)]

\* str.endswith
endswith(s, suffix) ==
    /\ Len(s) >= Len(suffix)
    /\ SubSeq(s, Len(s) - Len(suffix) + 1, Len(s)) = suffix

\* str.lower on one character (the upper-case letters the model uses)
lower_char(c) ==
    CASE c = "A" -> "a" [] c = "E" -> "e" [] c = "G" -> "g" [] c = "J" -> "j"
      [] c = "N" -> "n" [] c = "P" -> "p" [] OTHER -> c

lower(s) == [i \in 1..Len(s) |-> lower_char(s[i])]

\* str.rfind("."): the last position holding a dot, 0 if there is none
\* (python's -1 .. n-1 shifted by one, TLA+ sequences starting at 1)
rfind_dot(s) ==
    LET dots == {i \in 1..Len(s) : s[i] = "."}
    IN  IF dots = {} THEN 0 ELSE CHOOSE i \in dots : \A j \in dots : j <= i

\* pathlib.PurePath.suffix of a one-component path: the part from the last
\* dot on, unless the dot is the first or the last character of the name
path_suffix(name) ==
    LET i == rfind_dot(name)
    IN  IF 1 < i /\ i < Len(name) THEN SubSeq(name, i, Len(name)) ELSE <<>>

EXT_JPG  == <<".", "j", "p", "g">>
EXT_JPEG == <<".", "j", "p", "e", "g">>
EXT_PNG  == <<".", "p", "n", "g">>

\* ---------------------------------------------------- the forms directory
NAME_A_JPG  == <<"A", ".", "J", "P", "G">>
NAME_b_png  == <<"b", ".", "p", "n", "g">>
NAME_c_txt  == <<"c", ".", "t", "x", "t">>
NAME_d      == <<"d">>
NAME_e_jpeg == <<"e", ".", "j", "p", "e", "g">>
NAME_f_jpg  == <<"f", ".", "j", "p", "g">>

\* os.listdir order of the entries a directory can hold
ListingOrder ==
    <<NAME_A_JPG, NAME_b_png, NAME_c_txt, NAME_d, NAME_e_jpeg, NAME_f_jpg>>

EntryNames == {ListingOrder[i] : i \in 1..Len(ListingOrder)}

\* A directory is identified with the set of its entries.
Directories == {d \in SUBSET EntryNames : Cardinality(d) <= MaxEntries}

\* os.listdir(directory)
listdir(directory) == SelectSeq(ListingOrder, LAMBDA name : name \in directory)

\* The test of APIRequestManager.collect_files on one entry
collect_match(file) ==
    endswith(file, EXT_JPG) \/ endswith(file, EXT_JPEG) \/ endswith(file, EXT_PNG)

\* The test of MainWindow.scan_files on one entry
scan_match(file) ==
    path_suffix(lower(file)) \in {EXT_JPG, EXT_JPEG, EXT_PNG}

\* MainWindow.scan_files: the value of self.files after the scan, each file
\* by its name (the code stores the name joined to the directory's path)
scan_files(directory) == SelectSeq(listdir(directory), scan_match)

\* ------------------------------------------------- the remote response
\* Message content is a sequence of tokens: the code-block delimiter, single
\* characters, and JSON texts that start with "{" taken as one token each.
\* the three-backquote delimiter, one token
FENCE == "[fence]"
NL == "\n"
SP == " "
OBJ_A == "{first_name,email}"
OBJ_B == "{first_name,email,city}"
OBJ_EMPTY == "{}"
OBJ_BAD == "{first_name:"

KEYS_A == {"first_name", "email"}
KEYS_B == {"first_name", "email", "city"}

Whitespace == {NL, SP}

\* python values the parser can produce
None == [kind |-> "None", keys |-> {}]
Dict(keys) == [kind |-> "dict", keys |-> keys]
\* bool(value)
truthy(value) == value.kind = "dict" /\ value.keys # {}

\* str.split(sep, maxsplit): the list of parts
RECURSIVE split(_, _, _)
split(s, sep, maxsplit) ==
    LET hits == {i \in 1..Len(s) : s[i] = sep}
    IN  IF maxsplit = 0 \/ hits = {} THEN <<s>>
        ELSE LET i == CHOOSE h \in hits : \A g \in hits : h <= g
             IN  <<SubSeq(s, 1, i - 1)>> \o split(SubSeq(s, i + 1, Len(s)), sep, maxsplit - 1)

\* str.lstrip(chars)
RECURSIVE lstrip(_, _)
lstrip(s, chars) ==
    IF s # <<>> /\ Head(s) \in chars THEN lstrip(Tail(s), chars) ELSE s

\* str.rstrip(chars)
RECURSIVE rstrip(_, _)
rstrip(s, chars) ==
    IF s # <<>> /\ Last(s) \in chars THEN rstrip(SubSeq(s, 1, Len(s) - 1), chars) ELSE s

\* str.strip()
strip(s) == rstrip(lstrip(s, Whitespace), Whitespace)

\* json.loads: [raised |-> JSONDecodeError?, value |-> the parsed value]
json_loads(s) ==
    LET text == strip(s)
    IN  CASE text = <<OBJ_A>> -> [raised |-> FALSE, value |-> Dict(KEYS_A)]
          [] text = <<OBJ_B>> -> [raised |-> FALSE, value |-> Dict(KEYS_B)]
          [] text = <<OBJ_EMPTY>> -> [raised |-> FALSE, value |-> Dict({})]
          [] text = <<"n", "u", "l", "l">> -> [raised |-> FALSE, value |-> None]
          [] OTHER -> [raised |-> TRUE, value |-> None]

\* Sample message contents
CONTENT_TAGGED_A == <<FENCE, "j", "s", "o", "n", NL, OBJ_A, NL, FENCE>>
CONTENT_TAGGED_B == <<FENCE, "j", "s", "o", "n", NL, OBJ_B, NL, FENCE>>
CONTENT_UNTAGGED_A == <<"s", "o", SP, FENCE, NL, OBJ_A, NL, FENCE, NL>>
CONTENT_NO_FENCE == <<OBJ_A>>
CONTENT_MALFORMED == <<FENCE, "j", "s", "o", "n", NL, OBJ_BAD, NL, FENCE>>
CONTENT_NULL == <<FENCE, "j", "s", "o", "n", NL, "n", "u", "l", "l", NL, FENCE>>

Contents ==
    {CONTENT_TAGGED_A, CONTENT_TAGGED_B, CONTENT_UNTAGGED_A, CONTENT_NO_FENCE,
     CONTENT_MALFORMED, CONTENT_NULL}

UsageValues == 0..MaxUsage

\* The usage object of a response: the keys it has, and their values
\* (0 stands in for the value of a key it does not have).
UsageKeys == {{}, {"completion_tokens"}, {"completion_tokens", "prompt_tokens"}}

Usages ==
    {u \in [keys : UsageKeys,
            completion_tokens : UsageValues, prompt_tokens : UsageValues] :
        /\ "completion_tokens" \notin u.keys => u.completion_tokens = 0
        /\ "prompt_tokens" \notin u.keys => u.prompt_tokens = 0}

\* response.json(): usage and the list of choices (each the message content)
Envelopes ==
    [usage : Usages, choices : {<<>>} \cup {<<c>> : c \in Contents}]

NoEnvelope ==
    [usage |-> [keys |-> {}, completion_tokens |-> 0, prompt_tokens |-> 0],
     choices |-> <<>>]

\* What requests.post(...) followed by response.json() gives for one file:
\* an exception (transport failure, body that is no JSON), or an envelope.
Replies ==
    {[kind |-> "raised", json |-> NoEnvelope]}
    \cup {[kind |-> "json", json |-> e] : e \in Envelopes}

\* APIRequestManager.parse_openai_json_result:
\* [raised |-> an exception leaves the method, value |-> the value returned]
parse_openai_json_result(result) ==
    IF Len(result.choices) = 0 THEN [raised |-> TRUE, value |-> None]
    ELSE LET content == result.choices[1]
             parts == split(content, FENCE, 2)
         IN  IF Len(parts) < 2 THEN [raised |-> TRUE, value |-> None]
             ELSE LET json_str == lstrip(strip(parts[2]), {"j", "s", "o", "n", NL})
                      loaded == json_loads(json_str)
                  IN  IF loaded.raised THEN [raised |-> FALSE, value |-> None]
                      ELSE [raised |-> FALSE, value |-> loaded.value]

\* ------------------------------------------------------------ the state
VARIABLES
    \* MainWindow
    directory,       \* self.directory: the forms directory (its entries)
    ui_files,        \* self.files, set by scan_files
    disabled,        \* the "Process Files" button is disabled
    progressbar,     \* "running" or "stopped"
    csv,             \* the output file
    \* the APIRequestManager of the current batch, and its background thread
    self,            \* the manager's attributes
    t_pc,            \* "none", "loop", "handler", "done", "dead"
    t_file,          \* files the for loop of _process_files has finished
    \* the managers the window has replaced whose threads are still alive
    old,             \* what each of these threads has left to do, oldest first
    \* what the manager has sent out during the current batch
    progress_sink,   \* arguments of progress_callback, in order
    printed,         \* arguments of request_complete (print(result)), in order
    delivered,       \* arguments of completion_callback, in order
    \* bookkeeping: usage reported by the responses that were parsed into a
    \* record, and what the processing of each file met, in order
    parsed_usage,
    met,
    \* concurrent dispatch only
    lock,            \* holder of self.lock, 0 when free
    w_pc,            \* position of each worker
    w_file,          \* index in self.files of the file each worker processes
    w_reply,         \* the response each worker received
    w_tmp,           \* the value a worker has loaded for a += it is executing
    w_exc,           \* the worker is in the except clause of process_image
    next_file,       \* files handed to workers so far
    added_usage,     \* bookkeeping: sum of the usage values the += statements added
    appended         \* bookkeeping: number of results.append calls

ui_vars == <<directory, ui_files, disabled, progressbar, csv>>
mgr_vars == <<self, t_pc, t_file>>
sink_vars == <<progress_sink, printed, delivered, parsed_usage, met>>
par_vars == <<lock, w_pc, w_file, w_reply, w_tmp, w_exc, next_file, added_usage, appended>>
vars == <<ui_vars, mgr_vars, old, sink_vars, par_vars>>

\* ------------------------------------------------- APIRequestManager
\* collect_files: the value of self.files (self.num_requests is its length)
collect_files(dir) == SelectSeq(listdir(dir), collect_match)

ZeroTokens == [prompt_tokens |-> 0, completion_tokens |-> 0]

\* __init__
NewManager(dir) ==
    LET files == collect_files(dir)
    IN  [directory |-> dir,
         completed_requests |-> 0,
         num_requests |-> Len(files),
         files |-> files,
         results |-> <<>>,
         tokens |-> ZeroTokens]

\* The attributes before a manager exists
NoManager ==
    [directory |-> {}, completed_requests |-> 0, num_requests |-> 0,
     files |-> <<>>, results |-> <<>>, tokens |-> ZeroTokens]

\* messages
ProcessingMsg(file) == [kind |-> "Processing", file |-> file, content |-> None]
ContentMsg(file, content) == [kind |-> "content", file |-> file, content |-> content]
ProcessedMsg(file) == [kind |-> "Processed image", file |-> file]
ErrorMsg(file) == [kind |-> "Error processing image", file |-> file]

\* process_result with the usage values read by dict.get(key, 0): a response
\* without usage adds nothing and goes on to the parse
process_result_get(m, file, result) ==
    LET m2 == [m EXCEPT
                  !.tokens.completion_tokens = @ + result.usage.completion_tokens,
                  !.tokens.prompt_tokens = @ + result.usage.prompt_tokens]
        parsed == parse_openai_json_result(result)
    IN  IF parsed.raised
        THEN [self |-> m2, raised |-> TRUE, progress |-> <<>>]
        ELSE
        LET content == IF truthy(parsed.value) THEN parsed.value ELSE Dict({})
        IN  [self |-> [m2 EXCEPT !.results = Append(@, content)],
             raised |-> FALSE,
             progress |-> <<ContentMsg(file, content)>>]

\* process_result with the record put at the front of self.results
process_result_insert(m, file, result) ==
    IF "completion_tokens" \notin result.usage.keys
    THEN [self |-> m, raised |-> TRUE, progress |-> <<>>]
    ELSE
    LET m1 == [m EXCEPT !.tokens.completion_tokens = @ + result.usage.completion_tokens]
    IN  IF "prompt_tokens" \notin result.usage.keys
        THEN [self |-> m1, raised |-> TRUE, progress |-> <<>>]
        ELSE
        LET m2 == [m1 EXCEPT !.tokens.prompt_tokens = @ + result.usage.prompt_tokens]
            parsed == parse_openai_json_result(result)
        IN  IF parsed.raised
            THEN [self |-> m2, raised |-> TRUE, progress |-> <<>>]
            ELSE
            LET content == IF truthy(parsed.value) THEN parsed.value ELSE Dict({})
            IN  [self |-> [m2 EXCEPT !.results = <<content>> \o @],
                 raised |-> FALSE,
                 progress |-> <<ContentMsg(file, content)>>]

\* process_result with an empty record appended for a response whose parse
\* raises, before the exception leaves the method
process_result_keep(m, file, result) ==
    IF "completion_tokens" \notin result.usage.keys
    THEN [self |-> m, raised |-> TRUE, progress |-> <<>>]
    ELSE
    LET m1 == [m EXCEPT !.tokens.completion_tokens = @ + result.usage.completion_tokens]
    IN  IF "prompt_tokens" \notin result.usage.keys
        THEN [self |-> m1, raised |-> TRUE, progress |-> <<>>]
        ELSE
        LET m2 == [m1 EXCEPT !.tokens.prompt_tokens = @ + result.usage.prompt_tokens]
            parsed == parse_openai_json_result(result)
        IN  IF parsed.raised
            THEN [self |-> [m2 EXCEPT !.results = Append(@, Dict({}))],
                  raised |-> TRUE, progress |-> <<>>]
            ELSE
            LET content == IF truthy(parsed.value) THEN parsed.value ELSE Dict({})
            IN  [self |-> [m2 EXCEPT !.results = Append(@, content)],
                 raised |-> FALSE,
                 progress |-> <<ContentMsg(file, content)>>]

\* process_result, on the manager m:
\*   raised   an exception leaves the method
\*   progress what it passed to progress_callback
process_result(m, file, result) ==
    IF "completion_tokens" \notin result.usage.keys
    THEN [self |-> m, raised |-> TRUE, progress |-> <<>>]
    ELSE
    LET m1 == [m EXCEPT !.tokens.completion_tokens = @ + result.usage.completion_tokens]
    IN  IF "prompt_tokens" \notin result.usage.keys
        THEN [self |-> m1, raised |-> TRUE, progress |-> <<>>]
        ELSE
        LET m2 == [m1 EXCEPT !.tokens.prompt_tokens = @ + result.usage.prompt_tokens]
            parsed == parse_openai_json_result(result)
        IN  IF parsed.raised
            THEN [self |-> m2, raised |-> TRUE, progress |-> <<>>]
            ELSE
            LET content == IF truthy(parsed.value) THEN parsed.value ELSE Dict({})
            IN  [self |-> [m2 EXCEPT !.results = Append(@, content)],
                 raised |-> FALSE,
                 progress |-> <<ContentMsg(file, content)>>]

\* request_complete with the comparison written >= instead of ==
request_complete_ge(m) ==
    LET m1 == [m EXCEPT !.completed_requests = @ + 1]
    IN  [self |-> m1, fired |-> m1.completed_requests >= m1.num_requests]

\* request_complete, on the manager m, the whole "with self.lock" block:
\*   fired    completion_callback is called
request_complete(m) ==
    LET m1 == [m EXCEPT !.completed_requests = @ + 1]
    IN  [self |-> m1, fired |-> m1.completed_requests = m1.num_requests]

\* ---------------------------------------------------------- MainWindow
NoFile == [written |-> FALSE, header |-> {}, rows |-> <<>>]

\* The rows csv.DictWriter.writerows writes before a row with a key that is
\* no field name stops it (ValueError)
RECURSIVE rows_written(_, _)
rows_written(header, records) ==
    IF records = <<>> \/ ~(Head(records).keys \subseteq header) THEN <<>>
    ELSE <<Head(records).keys>> \o rows_written(header, Tail(records))

\* write_csv: [raised, file |-> the output file afterwards]
\*   may_write  there is no file yet, or the user agrees to overwrite it
\*   open_ok    open(output_file, "w") succeeds
write_csv(file, results, may_write, open_ok) ==
    IF results = <<>> THEN [raised |-> FALSE, file |-> file]
    ELSE IF ~may_write THEN [raised |-> FALSE, file |-> file]
    ELSE IF ~open_ok THEN [raised |-> TRUE, file |-> file]
    ELSE LET header == results[1].keys
             rows == rows_written(header, results)
         IN  [raised |-> Len(rows) < Len(results),
              file |-> [written |-> TRUE, header |-> header, rows |-> rows]]

\* validate: api_key, output_dir and output_file keep the non-empty values
\* load_settings gives them; directory and files are what is left to check
validate == ui_files # <<>>

\* The inputs of one on_complete call
CallbackInputs == [may_write : BOOLEAN, open_ok : BOOLEAN]

\* on_complete(results, tokens), called by request_complete: the window
\* afterwards (csv is what this batch wrote to the output file)
on_complete(m, cb) ==
    /\ disabled' = FALSE
    /\ progressbar' = "stopped"
    /\ delivered' = Append(delivered, [results |-> m.results, tokens |-> m.tokens])
    /\ csv' = write_csv(csv, m.results, cb.may_write, cb.open_ok).file

\* on_complete raises (write_csv does)
on_complete_raises(m, cb) ==
    write_csv(csv, m.results, cb.may_write, cb.open_ok).raised

\* The response was parsed into a record (a JSON object)
parsed_into_record(result) ==
    LET parsed == parse_openai_json_result(result)
    IN  ~parsed.raised /\ parsed.value.kind = "dict"

\* What one file's processing meets: encode_image raises (the file cannot be
\* opened or read), or the request gets a reply
IO_ERROR == [kind |-> "io_error", json |-> NoEnvelope]
FileInputs == {IO_ERROR} \cup Replies

\* What a file's processing met, for the bookkeeping:
\*   "io_error"        encode_image raised
\*   "request_failed"  the request raised, or the body is no envelope with usage
\*   "parse_failure"   no choice, no delimiter, or text that is no JSON object
\*   "parsed"          the content holds a JSON object
input_class(input) ==
    CASE input.kind = "io_error" -> "io_error"
      [] input.kind = "raised" -> "request_failed"
      [] OTHER ->
           IF input.json.usage.keys # {"completion_tokens", "prompt_tokens"}
           THEN "request_failed"
           ELSE IF parsed_into_record(input.json) THEN "parsed" ELSE "parse_failure"

\* process_image, the try block up to the call of request_complete
\* (requests.post, response.json, process_result):
\*   raised   an exception reaches the except clause
try_block(m, file, reply) ==
    IF reply.kind = "raised"
    THEN [self |-> m, raised |-> TRUE, progress |-> <<>>, recorded |-> FALSE]
    ELSE LET pr == process_result(m, file, reply.json)
         IN  [self |-> pr.self, raised |-> pr.raised, progress |-> pr.progress,
              recorded |-> ~pr.raised /\ parsed_into_record(reply.json)]

\* --------------------------------------------------------------- actions
\* A manager the window has replaced by a new one.  Its thread goes on; of
\* its attributes the counters are kept, nothing but its own completion
\* callback reading the others.
\*   t_pc    "handler", "loop", or "ended"
\*   left    files its for loop has not started
\*   called  calls of its completion callback
\* A thread that has nothing left but the return of _process_files is ended.
Superseded(m, pc, left, called) ==
    IF pc \in {"none", "done", "dead"} \/ (pc = "loop" /\ left = 0)
    THEN [t_pc |-> "ended", self |-> NoManager, left |-> 0, called |-> called]
    ELSE [t_pc |-> pc,
          self |-> [NoManager EXCEPT !.completed_requests = m.completed_requests,
                                     !.num_requests = m.num_requests],
          left |-> left,
          called |-> called]

\* Files the for loop of the current thread has not started
FilesLeft == Len(self.files) - t_file - (IF t_pc = "handler" THEN 1 ELSE 0)

\* The threads alive once the window has replaced the current manager
Replaced ==
    LET thread == Superseded(self, t_pc, FilesLeft, Len(delivered))
    IN  IF thread.t_pc = "ended" THEN old ELSE Append(old, thread)

\* MainWindow.on_process_files with the button left enabled
on_process_files_enabled ==
    /\ ~disabled
    /\ validate
    /\ Len(Replaced) < MaxThreads
    /\ disabled' = FALSE
    /\ progressbar' = "running"
    /\ self' = NewManager(directory)
    /\ t_pc' = "loop"
    /\ t_file' = 0
    /\ old' = Replaced
    /\ progress_sink' = <<>>
    /\ printed' = <<>>
    /\ delivered' = <<>>
    /\ csv' = NoFile
    /\ parsed_usage' = ZeroTokens
    /\ met' = <<>>
    /\ UNCHANGED <<directory, ui_files, par_vars>>

\* MainWindow.on_process_files, up to Thread.start in process_files.  A click
\* on the button reaches it whenever the button is enabled, whatever the thread
\* of the previous manager is doing; that thread goes on with what it has left.
on_process_files ==
    /\ ~disabled
    /\ validate
    /\ Len(Replaced) < MaxThreads
    /\ disabled' = TRUE
    /\ progressbar' = "running"
    /\ self' = NewManager(directory)
    /\ t_pc' = "loop"
    /\ t_file' = 0
    /\ old' = Replaced
    /\ progress_sink' = <<>>
    /\ printed' = <<>>
    /\ delivered' = <<>>
    /\ csv' = NoFile
    /\ parsed_usage' = ZeroTokens
    /\ met' = <<>>
    /\ UNCHANGED <<directory, ui_files, par_vars>>

\* request_complete(result) called by the thread from process_image, with
\* the completion callback it may call; `next` is where the thread goes when
\* no exception leaves request_complete, `failed` where it goes otherwise
CallRequestComplete(m, msg, next, failed) ==
    LET rc == request_complete(m)
    IN  /\ printed' = Append(printed, msg)
        /\ self' = rc.self
        /\ IF rc.fired
           THEN \E cb \in CallbackInputs :
                   /\ on_complete(rc.self, cb)
                   /\ IF on_complete_raises(rc.self, cb)
                      THEN t_pc' = failed /\ t_file' = t_file
                      ELSE t_pc' = next /\ t_file' = t_file + 1
           ELSE /\ UNCHANGED <<disabled, progressbar, delivered, csv>>
                /\ t_pc' = next
                /\ t_file' = t_file + 1

\* The bookkeeping of the usage of parsed responses, after one more file
CountParsed(recorded, usage) ==
    IF recorded
    THEN [prompt_tokens |-> parsed_usage.prompt_tokens + usage.prompt_tokens,
          completion_tokens |-> parsed_usage.completion_tokens + usage.completion_tokens]
    ELSE parsed_usage

\* encode_image raises outside the try block: the exception leaves
\* process_image and _process_files
EncodeRaises ==
    /\ t_pc' = "dead"
    /\ UNCHANGED <<self, t_file, printed, delivered, parsed_usage, disabled,
                   progressbar, csv>>

\* The try block raised: on to the except clause
TryRaises(m) ==
    /\ self' = m
    /\ t_pc' = "handler"
    /\ UNCHANGED <<t_file, printed, delivered, disabled, progressbar, csv>>

\* _process_files, one iteration of the for loop: progress_callback, then
\* process_image up to the end of its try block.
process_file ==
    /\ t_pc = "loop"
    /\ t_file < Len(self.files)
    /\ \E input \in FileInputs :
        LET file == self.files[t_file + 1]
            t == try_block(self, file, input)
        IN  /\ met' = Append(met, input_class(input))
            /\ progress_sink' =
                  IF input = IO_ERROR
                  THEN Append(progress_sink, ProcessingMsg(file))
                  ELSE Append(progress_sink, ProcessingMsg(file)) \o t.progress
            /\ input = IO_ERROR => EncodeRaises
            /\ input # IO_ERROR =>
                  /\ parsed_usage' = CountParsed(t.recorded, input.json.usage)
                  /\ t.raised => TryRaises(t.self)
                  /\ ~t.raised =>
                        CallRequestComplete(t.self, ProcessedMsg(file), "loop", "handler")
    /\ UNCHANGED <<directory, ui_files, old, par_vars>>

\* process_image, the except clause, then back to the for loop; an exception
\* raised here leaves process_image and _process_files
handle_exception ==
    /\ t_pc = "handler"
    /\ CallRequestComplete(self, ErrorMsg(self.files[t_file + 1]), "loop", "dead")
    /\ UNCHANGED <<directory, ui_files, old, progress_sink, parsed_usage, met, par_vars>>

\* _process_files returns: the for loop has no file left
thread_exit ==
    /\ t_pc = "loop"
    /\ t_file = Len(self.files)
    /\ t_pc' = "done"
    /\ UNCHANGED <<ui_vars, self, t_file, old, sink_vars, par_vars>>

\* The sequence s with its k-th element replaced by the thread t, or without
\* it when that thread has ended
Continue(s, k, t) ==
    IF t.t_pc = "ended"
    THEN SubSeq(s, 1, k - 1) \o SubSeq(s, k + 1, Len(s))
    ELSE [s EXCEPT ![k] = t]

\* The k-th thread of a replaced manager, in the except clause of
\* process_image: request_complete, then back to the for loop; an exception
\* raised here leaves process_image and _process_files
old_handle_exception(k) ==
    /\ old[k].t_pc = "handler"
    /\ LET t == old[k]
           rc == request_complete(t.self)
       IN  IF rc.fired
           THEN \E cb \in CallbackInputs :
                   /\ on_complete(rc.self, cb)
                   /\ old' = Continue(old, k,
                         Superseded(rc.self,
                                    IF on_complete_raises(rc.self, cb) THEN "dead" ELSE "loop",
                                    t.left, t.called + 1))
           ELSE /\ old' = Continue(old, k, Superseded(rc.self, "loop", t.left, t.called))
                /\ UNCHANGED <<disabled, progressbar, delivered, csv>>
    /\ UNCHANGED <<directory, ui_files, mgr_vars, progress_sink, printed, parsed_usage,
                   met, par_vars>>

Workers == 1..MaxWorkers

\* No worker exists (sequential dispatch)
ParIdle ==
    /\ lock = 0
    /\ w_pc = [w \in Workers |-> "idle"]
    /\ w_file = [w \in Workers |-> 0]
    /\ w_reply = [w \in Workers |-> NoEnvelope]
    /\ w_tmp = [w \in Workers |-> 0]
    /\ w_exc = [w \in Workers |-> FALSE]
    /\ next_file = 0
    /\ added_usage = ZeroTokens
    /\ appended = 0

\* The window after MainWindow.setup, before any click
Init ==
    /\ directory \in Directories
    /\ ui_files = scan_files(directory)
    /\ disabled = FALSE
    /\ progressbar = "stopped"
    /\ csv = NoFile
    /\ self = NoManager
    /\ t_pc = "none"
    /\ t_file = 0
    /\ old = <<>>
    /\ progress_sink = <<>>
    /\ printed = <<>>
    /\ delivered = <<>>
    /\ parsed_usage = ZeroTokens
    /\ met = <<>>
    /\ ParIdle

Next ==
    \/ on_process_files
    \/ process_file
    \/ handle_exception
    \/ thread_exit
    \/ \E k \in 1..Len(old) : old_handle_exception(k)

Spec == Init /\ [][Next]_vars

\* ---------------------------------------------------- concurrent dispatch
\* The same manager with its files handed to several workers, each running
\* process_image for one file at a time.  process_result and
\* request_complete are taken statement by statement: a += on self.tokens
\* or on self.completed_requests is a load followed by a store, and only
\* the body of "with self.lock" excludes other workers.  The texts sent to
\* progress_callback and to print are not followed here.

\* Directories of the concurrent batches: 1..MaxParFiles files, all collected
ParDirectories ==
    {d \in Directories :
        /\ Len(collect_files(d)) = Cardinality(d)
        /\ Cardinality(d) \in 1..MaxParFiles}

\* What a file's processing meets there: a failed read, a failed request, or
\* a full envelope whose content has the delimiter or lacks it
ParInputs ==
    {IO_ERROR, [kind |-> "raised", json |-> NoEnvelope]}
    \cup {r \in Replies :
            /\ r.kind = "json"
            /\ r.json.usage.keys = {"completion_tokens", "prompt_tokens"}
            /\ r.json.usage.completion_tokens >= 1
            /\ r.json.usage.prompt_tokens = r.json.usage.completion_tokens
            /\ r.json.choices \in {<<CONTENT_TAGGED_A>>, <<CONTENT_NO_FENCE>>}}

\* A manager constructed and started by on_process_files, its files not yet
\* handed out
InitPar ==
    /\ directory \in ParDirectories
    /\ ui_files = scan_files(directory)
    /\ disabled = TRUE
    /\ progressbar = "running"
    /\ csv = NoFile
    /\ self = NewManager(directory)
    /\ t_pc = "pool"
    /\ t_file = 0
    /\ old = <<>>
    /\ progress_sink = <<>>
    /\ printed = <<>>
    /\ delivered = <<>>
    /\ parsed_usage = ZeroTokens
    /\ met = <<>>
    /\ ParIdle

\* The worker w goes to the position pc; its locals are dropped when it
\* has left process_image
Goto(w, pc) ==
    /\ w_pc' = [w_pc EXCEPT ![w] = pc]
    /\ IF pc \in {"idle", "dead"}
       THEN /\ w_file' = [w_file EXCEPT ![w] = 0]
            /\ w_reply' = [w_reply EXCEPT ![w] = NoEnvelope]
            /\ w_exc' = [w_exc EXCEPT ![w] = FALSE]
       ELSE UNCHANGED <<w_file, w_reply, w_exc>>

\* The worker w goes to the except clause of process_image, and from there
\* to request_complete
Raise(w) ==
    /\ w_pc' = [w_pc EXCEPT ![w] = "acquire"]
    /\ w_exc' = [w_exc EXCEPT ![w] = TRUE]
    /\ UNCHANGED <<w_file, w_reply>>

\* The dispatch: an idle worker takes the next file (the body of the for loop
\* of _process_files up to the call of process_image)
w_take(w) ==
    /\ w_pc[w] = "idle"
    /\ next_file < Len(self.files)
    /\ next_file' = next_file + 1
    /\ w_file' = [w_file EXCEPT ![w] = next_file + 1]
    /\ w_pc' = [w_pc EXCEPT ![w] = "request"]
    /\ UNCHANGED <<ui_vars, mgr_vars, old, sink_vars, lock, w_reply, w_tmp, w_exc,
                   added_usage, appended>>

\* process_image: encode_image, requests.post, response.json
w_request(w) ==
    /\ w_pc[w] = "request"
    /\ \E input \in ParInputs :
          CASE input.kind = "io_error" -> Goto(w, "dead")
            [] input.kind = "raised" -> Raise(w)
            [] OTHER -> /\ w_reply' = [w_reply EXCEPT ![w] = input.json]
                        /\ w_pc' = [w_pc EXCEPT ![w] = "load_completion"]
                        /\ UNCHANGED <<w_file, w_exc>>
    /\ UNCHANGED <<ui_vars, mgr_vars, old, sink_vars, lock, w_tmp, next_file,
                   added_usage, appended>>

\* process_result, line 176, the load of self.tokens["completion_tokens"]
\* and of the usage value (KeyError when the response has none)
w_load_completion(w) ==
    /\ w_pc[w] = "load_completion"
    /\ IF "completion_tokens" \in w_reply[w].usage.keys
       THEN /\ w_tmp' = [w_tmp EXCEPT ![w] = self.tokens.completion_tokens]
            /\ Goto(w, "store_completion")
       ELSE /\ Raise(w)
            /\ UNCHANGED w_tmp
    /\ UNCHANGED <<ui_vars, mgr_vars, old, sink_vars, lock, next_file, added_usage, appended>>

\* process_result, line 176, the store
w_store_completion(w) ==
    /\ w_pc[w] = "store_completion"
    /\ self' = [self EXCEPT !.tokens.completion_tokens =
                    w_tmp[w] + w_reply[w].usage.completion_tokens]
    /\ added_usage' = [added_usage EXCEPT !.completion_tokens =
                    @ + w_reply[w].usage.completion_tokens]
    /\ w_tmp' = [w_tmp EXCEPT ![w] = 0]
    /\ Goto(w, "load_prompt")
    /\ UNCHANGED <<ui_vars, t_pc, t_file, old, sink_vars, lock, next_file, appended>>

\* process_result, line 177, the load
w_load_prompt(w) ==
    /\ w_pc[w] = "load_prompt"
    /\ IF "prompt_tokens" \in w_reply[w].usage.keys
       THEN /\ w_tmp' = [w_tmp EXCEPT ![w] = self.tokens.prompt_tokens]
            /\ Goto(w, "store_prompt")
       ELSE /\ Raise(w)
            /\ UNCHANGED w_tmp
    /\ UNCHANGED <<ui_vars, mgr_vars, old, sink_vars, lock, next_file, added_usage, appended>>

\* process_result, line 177, the store
w_store_prompt(w) ==
    /\ w_pc[w] = "store_prompt"
    /\ self' = [self EXCEPT !.tokens.prompt_tokens =
                    w_tmp[w] + w_reply[w].usage.prompt_tokens]
    /\ added_usage' = [added_usage EXCEPT !.prompt_tokens =
                    @ + w_reply[w].usage.prompt_tokens]
    /\ w_tmp' = [w_tmp EXCEPT ![w] = 0]
    /\ Goto(w, "parse")
    /\ UNCHANGED <<ui_vars, t_pc, t_file, old, sink_vars, lock, next_file, appended>>

\* process_result, lines 179 to 182: parse, append (list.append is one
\* indivisible operation), progress_callback
w_parse_append(w) ==
    /\ w_pc[w] = "parse"
    /\ LET parsed == parse_openai_json_result(w_reply[w])
           content == IF truthy(parsed.value) THEN parsed.value ELSE Dict({})
       IN  IF parsed.raised
           THEN /\ Raise(w)
                /\ UNCHANGED <<self, appended>>
           ELSE /\ self' = [self EXCEPT !.results = Append(@, content)]
                /\ appended' = appended + 1
                /\ Goto(w, "acquire")
    /\ UNCHANGED <<ui_vars, t_pc, t_file, old, sink_vars, lock, w_tmp, next_file,
                   added_usage>>

\* self.lock taken without regard to its holder ("with self.lock" left out)
lock_ignored(w) == w \in Workers

\* self.lock can be taken by the worker w
lock_free(w) == lock = 0

\* request_complete, print(result) and the entry of "with self.lock"
w_acquire(w) ==
    /\ w_pc[w] = "acquire"
    /\ lock_free(w)
    /\ lock' = w
    /\ Goto(w, "rc_load")
    /\ UNCHANGED <<ui_vars, mgr_vars, old, sink_vars, w_tmp, next_file, added_usage,
                   appended>>

\* request_complete, line 84, the load
w_rc_load(w) ==
    /\ w_pc[w] = "rc_load"
    /\ w_tmp' = [w_tmp EXCEPT ![w] = self.completed_requests]
    /\ Goto(w, "rc_store")
    /\ UNCHANGED <<ui_vars, mgr_vars, old, sink_vars, lock, next_file, added_usage,
                   appended>>

\* request_complete, line 84, the store
w_rc_store(w) ==
    /\ w_pc[w] = "rc_store"
    /\ self' = [self EXCEPT !.completed_requests = w_tmp[w] + 1]
    /\ w_tmp' = [w_tmp EXCEPT ![w] = 0]
    /\ Goto(w, "rc_check")
    /\ UNCHANGED <<ui_vars, t_pc, t_file, old, sink_vars, lock, next_file, added_usage,
                   appended>>

\* The comparison made after the first completion only
batch_complete_first(m) == m.completed_requests = 1

\* request_complete, line 85: the comparison
batch_complete(m) == m.completed_requests = m.num_requests

\* request_complete, lines 85 to 87 and the exit of "with self.lock"; an
\* exception of the callback reaches the except clause of process_image when
\* the call came from the try block, and leaves process_image otherwise
w_rc_check(w) ==
    /\ w_pc[w] = "rc_check"
    /\ lock' = 0
    /\ IF batch_complete(self)
       THEN \E cb \in CallbackInputs :
               /\ on_complete(self, cb)
               /\ IF on_complete_raises(self, cb)
                  THEN IF w_exc[w] THEN Goto(w, "dead") ELSE Raise(w)
                  ELSE Goto(w, "idle")
       ELSE /\ Goto(w, "idle")
            /\ UNCHANGED <<disabled, progressbar, delivered, csv>>
    /\ UNCHANGED <<directory, ui_files, mgr_vars, old, progress_sink, printed,
                   parsed_usage, met, w_tmp, next_file, added_usage, appended>>

NextPar ==
    \E w \in Workers :
        \/ w_take(w)
        \/ w_request(w)
        \/ w_load_completion(w)
        \/ w_store_completion(w)
        \/ w_load_prompt(w)
        \/ w_store_prompt(w)
        \/ w_parse_append(w)
        \/ w_acquire(w)
        \/ w_rc_load(w)
        \/ w_rc_store(w)
        \/ w_rc_check(w)

SpecPar == InitPar /\ [][NextPar]_vars

\* ------------------------------------------------------------ properties
\* Positions in `printed` of the request_complete calls made for a file
CompletionsOf(file) == {k \in 1..Len(printed) : printed[k].file = file}

\* Positions in progress_sink of the records reported for a file
RecordsOf(file) ==
    {k \in 1..Len(progress_sink) :
        progress_sink[k].kind = "content" /\ progress_sink[k].file = file}

\* The completion callback is called in this step
CallbackStep == Len(delivered') = Len(delivered) + 1

\* C1: in a batch of N >= 1 files the completion callback is called at most
\* once, and the step that calls it ends in a state where
\* completed_requests = num_requests = N and request_complete has been called
\* N times, once for each file of the batch (success or failure).
C1_CallbackOnceAfterNCompletions ==
    [][CallbackStep =>
          /\ Len(delivered) = 0
          /\ self'.num_requests >= 1
          /\ self'.num_requests = Len(self'.files)
          /\ self'.completed_requests = self'.num_requests
          /\ Len(printed') = self'.num_requests
          /\ \A i \in 1..Len(printed') : printed'[i].file = self'.files[i]
          /\ printed'[Len(printed')].kind \in {"Processed image", "Error processing image"}
      ]_vars

C1_Witness ==
    /\ Len(delivered) = 1
    /\ self.num_requests = 2
    /\ self.completed_requests = 2
    /\ printed[1].kind = "Error processing image"
    /\ printed[2].kind = "Processed image"

\* C2: once a batch of N >= 1 files has been started it runs to completion:
\* when its thread has ended, every file has been processed and the
\* completion callback has been called, whatever errors the files met.
C2_BatchRunsToCompletion ==
    (t_pc \in {"done", "dead"} /\ self.num_requests >= 1) =>
        /\ Len(delivered) = 1
        /\ Len(met) = self.num_requests

\* C3: a file whose encode_image raised is handled like a failed request:
\* the exception reaches the except clause of process_image, which calls
\* request_complete once for the file ("Error processing image"), no record
\* is reported for it, and the loop goes on.
C3_EncodeErrorIsPerFileFailure ==
    \A i \in 1..Len(met) :
        met[i] = "io_error" =>
            /\ RecordsOf(self.files[i]) = {}
            /\ \/ t_pc = "handler" /\ t_file + 1 = i
               \/ /\ Cardinality(CompletionsOf(self.files[i])) = 1
                  /\ \A k \in CompletionsOf(self.files[i]) :
                        printed[k].kind = "Error processing image"
                  /\ t_pc # "dead" \/ Len(delivered) = 1

\* C4: when the completion callback is called, the token counters it gets
\* are the sums of the usage reported by the responses that were parsed into
\* a record; the other files add nothing.
C4_TokensOfParsedOnly ==
    Len(delivered) >= 1 => delivered[1].tokens = parsed_usage

\* C5: a batch of no file never leaves the window waiting: no state has an
\* ended thread of a manager with num_requests = 0 while the button is still
\* disabled, the progress bar running and on_complete not called.
C5_EmptyBatchDoesNotHang ==
    ~ /\ t_pc = "done"
      /\ self.num_requests = 0
      /\ disabled
      /\ progressbar = "running"
      /\ Len(delivered) = 0

\* C6: a response that cannot be parsed (no choice, no delimiter, malformed
\* JSON) makes parse_openai_json_result return nothing instead of raising,
\* and process_result appends one empty record for the file, which is then
\* completed as processed.
C6_ParseFailureGivesEmptyRecord ==
    \A i \in 1..Len(met) :
        met[i] = "parse_failure" =>
            /\ Cardinality(RecordsOf(self.files[i])) = 1
            /\ \A k \in RecordsOf(self.files[i]) : progress_sink[k].content = Dict({})
            /\ ~(t_pc = "handler" /\ t_file + 1 = i)
            /\ \A k \in CompletionsOf(self.files[i]) :
                  k = i => printed[k].kind = "Processed image"

\* C7: a failed request (exception of the request, body that is no envelope
\* with usage) reaches the except clause of process_image with nothing
\* counted and no record appended; the except clause, the next step of the
\* batch's thread, counts the file once, appends no record, and the loop
\* goes on with the next file (or the batch is complete).
C7_RequestFailureIsPerFileFailure ==
    [][/\ (Len(met') = Len(met) + 1 /\ met'[Len(met')] = "request_failed") =>
            /\ t_pc' = "handler"
            /\ t_file' = t_file
            /\ self'.results = self.results
            /\ self'.completed_requests = self.completed_requests
            /\ printed' = printed
       /\ (t_pc = "handler" /\ met[Len(met)] = "request_failed" /\ old' = old) =>
            /\ self'.completed_requests = self.completed_requests + 1
            /\ self'.results = self.results
            /\ printed' = Append(printed, ErrorMsg(self.files[t_file + 1]))
            /\ RecordsOf(self.files[t_file + 1]) = {}
            /\ progress_sink' = progress_sink
            /\ \/ t_pc' = "loop" /\ t_file' = t_file + 1
               \/ t_pc' = "dead" /\ CallbackStep /\ t_file + 1 = Len(self.files)
      ]_vars

C7_Witness ==
    /\ Len(met) = 2
    /\ met[1] = "request_failed"
    /\ met[2] = "parsed"
    /\ printed[1].kind = "Error processing image"
    /\ printed[2].kind = "Processed image"
    /\ self.completed_requests = 2
    /\ Len(self.results) = 1
    /\ Len(delivered) = 1

\* C8: progress_callback gets one message before each file and one after
\* it, on success and on failure, so at least 2N messages have reached it
\* when the completion callback is called for a batch of N files.
C8_TwoProgressMessagesPerFile ==
    Len(delivered) >= 1 =>
        /\ Len(progress_sink) >= 2 * self.num_requests
        /\ \A i \in 1..self.num_requests :
              \E k \in 1..Len(progress_sink) :
                  /\ progress_sink[k].file = self.files[i]
                  /\ progress_sink[k].kind # "Processing"

\* The extension of a name, compared without regard to case, is jpg, jpeg or png
IsImageName(name) ==
    LET low == lower(name)
    IN  \E ext \in {EXT_JPG, EXT_JPEG, EXT_PNG} :
           Len(low) > Len(ext) /\ SubSeq(low, Len(low) - Len(ext) + 1, Len(low)) = ext

\* C9: collect_files collects exactly the entries whose extension, compared
\* without regard to case, is jpg, jpeg or png, and num_requests is their
\* number (2 for a directory holding A.JPG, b.png, c.txt and d; 2 for one
\* holding A.JPG and b.png).
C9_CollectIgnoresCase ==
    t_pc # "none" =>
        /\ {self.files[i] : i \in 1..Len(self.files)}
              = {name \in self.directory : IsImageName(name)}
        /\ self.num_requests = Cardinality({name \in self.directory : IsImageName(name)})
        /\ {NAME_A_JPG, NAME_b_png} \subseteq self.directory => self.num_requests >= 2

\* C10: with several workers no update of self.tokens or self.results is
\* lost, as it would be were every += and every append serialized by
\* self.lock: when the completion callback is called, each counter it gets is
\* the sum of the usage values the += statements added, and results holds
\* every appended record.
C10_NoLostUpdate ==
    Len(delivered) >= 1 =>
        /\ delivered[1].tokens = added_usage
        /\ Len(delivered[1].results) = appended

\* Workers inside the body of "with self.lock" of request_complete
InLock == {w \in Workers : w_pc[w] \in {"rc_load", "rc_store", "rc_check"}}

\* The worker w executes the store of self.completed_requests += 1 in this step
IncrementStep(w) == w_pc[w] = "rc_store" /\ w_pc'[w] = "rc_check"

\* C11: with several workers calling request_complete, the increment and
\* the comparison are done by one worker at a time, the holder of self.lock;
\* every increment raises completed_requests by exactly one and nothing else
\* changes it; the worker whose increment makes it equal to num_requests is
\* the one that calls the completion callback, in its next step, and the
\* callback is called exactly once: it has been called as soon as
\* num_requests calls have left the locked block, and never before.
C11_RequestCompleteIsAtomic ==
    [][/\ Cardinality(InLock') <= 1
       /\ \A w \in InLock' : lock' = w
       /\ \A w \in Workers :
             IncrementStep(w) => self'.completed_requests = self.completed_requests + 1
       /\ self'.completed_requests # self.completed_requests =>
             \E w \in Workers : IncrementStep(w)
       /\ CallbackStep =>
             /\ Len(delivered) = 0
             /\ self.completed_requests = self.num_requests
             /\ \E w \in Workers : w_pc[w] = "rc_check" /\ lock = w
       /\ (\E w \in Workers : w_pc[w] = "rc_check"
               /\ self.completed_requests = self.num_requests) => CallbackStep
       /\ Len(delivered') <= 1
       /\ (self'.completed_requests >= self'.num_requests /\ InLock' = {}) =>
             Len(delivered') = 1
       /\ self'.completed_requests < self'.num_requests => Len(delivered') = 0
      ]_vars

C11_Witness ==
    /\ self.num_requests = 2
    /\ self.completed_requests = 1
    /\ lock = 2
    /\ w_pc[2] = "rc_check"
    /\ w_pc[1] = "acquire"
    /\ Len(delivered) = 0

\* C12: request_complete is called exactly once for each file the thread is
\* done with and at most once for any file, whatever exception the callbacks
\* raise, so 0 <= completed_requests <= num_requests in every state.
C12_OneCompletionPerFile ==
    /\ 0 <= self.completed_requests
    /\ self.completed_requests <= self.num_requests
    /\ \A i \in 1..Len(self.files) :
          /\ Cardinality(CompletionsOf(self.files[i])) <= 1
          /\ i <= t_file => Cardinality(CompletionsOf(self.files[i])) = 1

\* on_process_files has started the thread of a new manager in this step
ManagerStarted == t_pc' = "loop" /\ t_file' = 0 /\ ~(t_pc = "loop" /\ t_file = 0)

\* s is a prefix of t
IsPrefix(s, t) == Len(s) <= Len(t) /\ SubSeq(t, 1, Len(s)) = s

\* The records reported to progress_callback and the "Processed image"
\* completions, in order
Reported == SelectSeq(progress_sink, LAMBDA msg : msg.kind = "content")
Processed == SelectSeq(printed, LAMBDA msg : msg.kind = "Processed image")

FilesOf(msgs) == [k \in 1..Len(msgs) |-> msgs[k].file]

\* Position of a file in self.files
FileIndex(m, file) == CHOOSE i \in 1..Len(m.files) : m.files[i] = file

\* C13: during a batch every step leaves self.results as it was or appends
\* one record to it (the old list is a prefix of the new one); the records
\* are in the order in which their files were completed as processed; and
\* with the files processed one after the other by _process_files that is
\* the order of self.files.
C13_ResultsAppendOnly ==
    [][/\ ~ManagerStarted =>
             /\ IsPrefix(self.results, self'.results)
             /\ Len(self'.results) <= Len(self.results) + 1
       /\ Len(self'.results) = Len(Reported')
       /\ \A k \in 1..Len(self'.results) : self'.results[k] = Reported'[k].content
       /\ FilesOf(Reported') = FilesOf(Processed')
       /\ \A j, k \in 1..Len(Reported') :
             j < k => FileIndex(self', Reported'[j].file) < FileIndex(self', Reported'[k].file)
      ]_vars

C13_Witness ==
    /\ self.results = <<Dict(KEYS_B), Dict(KEYS_A)>>
    /\ Len(Processed) = 2
    /\ Processed[1].file = self.files[1]
    /\ Processed[2].file = self.files[2]

\* Workers between the start of the request and the end of process_result
InProcessResult ==
    {w \in Workers : w_pc[w] \in {"request", "load_completion", "store_completion",
                                  "load_prompt", "store_prompt", "parse"}}

\* C14: the step that calls the completion callback is taken when every
\* file of the batch has been handed out and no worker is in process_result
\* (with one thread: while the last file is completed), and from then on no
\* step of the batch appends to self.results or changes a counter of self.tokens, so the
\* list and the mapping the callback got are the final ones.
C14_SnapshotIsFinal ==
    [][/\ CallbackStep =>
             /\ InProcessResult = {}
             /\ t_pc = "pool" => next_file = Len(self.files)
             /\ t_pc # "pool" => t_file + 1 = Len(self.files)
       /\ (Len(delivered) >= 1 /\ ~ManagerStarted) =>
             /\ self'.results = self.results
             /\ self'.tokens = self.tokens
             /\ appended' = appended
             /\ added_usage' = added_usage
       /\ Len(delivered') >= 1 =>
             /\ delivered'[1].results = self'.results
             /\ delivered'[1].tokens = self'.tokens
      ]_vars

C14_Witness ==
    /\ Len(delivered) = 1
    /\ self.num_requests = 2
    /\ self.completed_requests = 3
    /\ appended = 2
    /\ Len(delivered[1].results) = 2
    /\ \A w \in Workers : w_pc[w] = "idle"

\* C16: when write_csv has written the output file for a non-empty list of
\* results, its columns are the keys of the first record and it holds one
\* row per record, whatever keys the later records have (two rows for the
\* records {first_name, email} and {first_name, email, city}).
C16_OneRowPerRecord ==
    (Len(delivered) >= 1 /\ csv.written) =>
        /\ csv.header = delivered[1].results[1].keys
        /\ Len(csv.rows) = Len(delivered[1].results)
        /\ delivered[1].results = <<Dict(KEYS_A), Dict(KEYS_B)>> => Len(csv.rows) = 2

\* C17: the files scan_files found (those validate checks) are the files
\* collect_files collects for the batch, so a batch started after validate
\* returned True has num_requests >= 1.
C17_ScanEqualsCollect ==
    t_pc # "none" =>
        /\ {ui_files[i] : i \in 1..Len(ui_files)}
              = {self.files[i] : i \in 1..Len(self.files)}
        /\ self.num_requests >= 1

\* The completion callback has raised during the batch: the exception took
\* the thread to the except clause of process_image, or out of it
CallbackRaised ==
    /\ Len(delivered) >= 1
    /\ t_pc \in {"handler", "dead"} \/ self.completed_requests > self.num_requests

\* C18: as long as no callback has raised, between two files and at the end
\* of the batch self.results holds one record for each file completed as
\* "Processed image" and none for a file completed as "Error processing
\* image", so Len(results) <= completed_requests <= num_requests.
C18_RecordsOfProcessedOnly ==
    (~CallbackRaised /\ t_pc \in {"loop", "done"}) =>
        /\ Len(self.results) = Len(Processed)
        /\ \A k \in 1..Len(printed) :
              /\ printed[k].kind = "Processed image" =>
                    Cardinality(RecordsOf(printed[k].file)) = 1
              /\ printed[k].kind = "Error processing image" =>
                    RecordsOf(printed[k].file) = {}
        /\ Len(self.results) <= self.completed_requests
        /\ self.completed_requests <= self.num_requests

C18_Witness ==
    /\ t_pc = "done"
    /\ ~CallbackRaised
    /\ Len(delivered) = 1
    /\ met = <<"parsed", "parse_failure">>
    /\ printed[1].kind = "Processed image"
    /\ printed[2].kind = "Error processing image"
    /\ Len(self.results) = 1
    /\ self.completed_requests = 2

\* The managers that are Running: created, their completion callback not
\* called yet (0 for the current one, and the place in `old` of a manager the
\* window has replaced)
RunningManagers ==
    {k \in 0..Len(old) :
        \/ k = 0 /\ t_pc # "none" /\ Len(delivered) = 0
        \/ k >= 1 /\ old[k].called = 0}

\* The threads of replaced managers, without the one that takes a step
Others(s) == {SubSeq(s, 1, k - 1) \o SubSeq(s, k + 1, Len(s)) : k \in 1..Len(s)}

\* C15: the window never has two managers Running.  on_process_files runs
\* only with the button enabled and no manager Running, and leaves the
\* button disabled and its new manager Running; the button stays disabled
\* exactly as long as that manager is Running, only a call of on_complete
\* enabling it again; and a manager the window has replaced has had its
\* callback called once, has no file left to process, and its thread ends
\* without calling it again.
C15_OneBatchAtATime ==
    [][/\ ManagerStarted =>
             /\ ~disabled
             /\ RunningManagers = {}
             /\ disabled'
             /\ RunningManagers' = {0}
       /\ (disabled /\ ~disabled') => (CallbackStep /\ old' = old)
       /\ disabled' <=> (0 \in RunningManagers')
       /\ Cardinality(RunningManagers') <= 1
       /\ \A k \in 1..Len(old') : old'[k].called = 1 /\ old'[k].left = 0
       /\ old' # old =>
             \/ ManagerStarted /\ Len(old') = Len(old) + 1 /\ SubSeq(old', 1, Len(old)) = old
             \/ old' \in Others(old) /\ delivered' = delivered /\ disabled' = disabled
      ]_vars

C15_Witness ==
    /\ Len(old) = 1
    /\ old[1].t_pc = "handler"
    /\ old[1].called = 1
    /\ disabled
    /\ t_pc = "loop"
    /\ t_file = 1
    /\ RunningManagers = {0}

===========================================================================
